---- MODULE Spec2Model ----
(***************************************************************************)
(* The day-stepped simulation of Coder1310/zebra.                          *)
(*                                                                         *)
(*   run_sim      src/submission_prog_final/batch_sim.py    (Spec)         *)
(*   run_session  src/simulator/engine.py            (SpecSession)         *)
(*                                                                         *)
(* Both engines keep their agents in `agents`, their event counter in      *)
(* event_id (eid in run_session), their event rows in log_rows             *)
(* (event_rows) and their metrics rows in sa_rows; SpecAll runs either.    *)
(*                                                                         *)
(* Probabilities and uniform draws are numerators over Grain: a call of    *)
(* rng.random() yields x / Grain with x in 0 .. Grain-1 (0.0 included,     *)
(* 1.0 excluded), and a probability p is p / Grain with p in 0 .. Grain.   *)
(* Attribute values ("d0", "s1", "p2", ...) are their indices.             *)
(* drawn is the set of call sites (source lines) at which the last step    *)
(* drew from rng, written the set of output files written so far.          *)
(***************************************************************************)
EXTENDS Integers, Sequences, FiniteSets, TLC

\* ----------------------------------------------------------------- bounds
MaxAgents == 3
MaxHouses == 3
MaxDays == 3
Grain == 3
DomSize == 2
NoisyAgents == 2
NoisyDays == 2
SessionAgents == 2
SessionDays == 2
RingSize == 4

\* -------------------------------------------------------------- constants
SixHouses == 6
Width == 10
Percent == 100
FactsPerHouse == 5

VARIABLES cfg, agents, beliefs, day, pc, cur, r, arrived_today,
          host_by_house, event_id, log_rows, sa_rows, drawn, written

vars == <<cfg, agents, beliefs, day, pc, cur, r, arrived_today,
          host_by_house, event_id, log_rows, sa_rows, drawn, written>>

\* rng.random(): the numerators a draw can take
Draws == 0 .. (Grain - 1)

n_agents == Cardinality(DOMAIN agents)
Idx == DOMAIN agents

\* ---------------------------------------------------------------- topology
\* the left neighbour without the step back to 0-based houses
neighbor_left_OffByOne(h, n_houses) == ((h - 1) % n_houses) + 1

neighbor_left(h, n_houses) == ((h - 2) % n_houses) + 1

\* a right neighbour two houses on
neighbor_right_Across(h, n_houses) == ((h + 1) % n_houses) + 1

neighbor_right(h, n_houses) == (h % n_houses) + 1

\* travel_days_6 with the table of one direction only
travel_days_6_OneWay(from_house, to_house) ==
  LET right == <<2, 1, 2, 2, 2, 3>>
  IN IF to_house = neighbor_right(from_house, 6) THEN right[from_house] ELSE 1

travel_days_6(from_house, to_house) ==
  LET right == <<2, 1, 2, 2, 2, 3>>
      left == <<3, 2, 1, 2, 2, 2>>
  IN IF to_house = neighbor_right(from_house, 6) THEN right[from_house]
     ELSE IF to_house = neighbor_left(from_house, 6) THEN left[from_house]
     ELSE 1

\* travel_days without the 6-house table
travel_days_AlwaysOne(from_house, to_house, n_houses) ==
  IF from_house = to_house THEN 0 ELSE 1

travel_days(from_house, to_house, n_houses) ==
  IF from_house = to_house THEN 0
  ELSE IF n_houses = SixHouses THEN travel_days_6(from_house, to_house)
  ELSE 1

\* sample_direction: one draw x, partitioned by p_left and p_right
sample_direction(s, x) ==
  IF x < s.p_left THEN "left"
  ELSE IF x - s.p_left < s.p_right THEN "right"
  ELSE "home"

\* ----------------------------------------------------------------- beliefs
\* d[k] = v on a dict
Put(m, k, v) == [x \in (DOMAIN m) \cup {k} |-> IF x = k THEN v ELSE m[x]]

\* an update that keeps the old value of a key it already has
DictUpdate_KeepOld(dst, src) ==
  [x \in (DOMAIN dst) \cup (DOMAIN src) |-> IF x \in DOMAIN dst THEN dst[x] ELSE src[x]]

\* dst.update(src)
DictUpdate(dst, src) ==
  [x \in (DOMAIN dst) \cup (DOMAIN src) |-> IF x \in DOMAIN src THEN src[x] ELSE dst[x]]

Domains == [drinks |-> 0 .. (DomSize - 1),
            smokes |-> 0 .. (DomSize - 1),
            pets |-> 0 .. (DomSize - 1)]

\* belief stores seeded with the house of every agent
init_beliefs_AllHouses(ag) ==
  [i \in DOMAIN ag |->
     [houses |-> [j \in DOMAIN ag |-> ag[j].house_id],
      drinks |-> Put(<<>>, i, ag[i].drink),
      smokes |-> Put(<<>>, i, ag[i].smokes),
      pets |-> Put(<<>>, i, ag[i].pet)]]

init_beliefs(ag) ==
  [i \in DOMAIN ag |->
     [houses |-> Put(<<>>, i, ag[i].house_id),
      drinks |-> Put(<<>>, i, ag[i].drink),
      smokes |-> Put(<<>>, i, ag[i].smokes),
      pets |-> Put(<<>>, i, ag[i].pet)]]

\* the values choose_other_value_str can return
choose_other_value_str(values, true_v) ==
  IF values = {} THEN {true_v}
  ELSE IF Cardinality(values) = 1 THEN values
  ELSE values \ {true_v}

\* choose_other_value_int without its `if n <= 1` exit: with one house the
\* retry loop finds no other value and never returns
choose_other_value_int_NoExit(n, true_v) == (1 .. n) \ {true_v}

\* choose_other_value_int without its retry loop: one rng.randint(1, n)
choose_other_value_int_Any(n, true_v) ==
  IF n <= 1 THEN {true_v} ELSE 1 .. n

\* the values choose_other_value_int can return
choose_other_value_int(n, true_v) ==
  IF n <= 1 THEN {true_v} ELSE (1 .. n) \ {true_v}

\* one attribute of learn_direct: corrupted iff noise > 0 and the draw < noise
Observed(true_v, others, noise) ==
  {v \in {true_v} \cup others :
     \E x \in Draws : v \in (IF noise > 0 /\ x < noise THEN others ELSE {true_v})}

\* the four values learn_direct can record about agent `other`
LearnOutcomes(other, n_houses, noise) ==
  [house : Observed(other.house_id, choose_other_value_int(n_houses, other.house_id), noise),
   drink : Observed(other.drink, choose_other_value_str(Domains.drinks, other.drink), noise),
   smokes : Observed(other.smokes, choose_other_value_str(Domains.smokes, other.smokes), noise),
   pet : Observed(other.pet, choose_other_value_str(Domains.pets, other.pet), noise)]

\* where learn_direct draws when it records `obs` about `other`: the four
\* `noise > 0.0 and rng.random() < noise` tests draw only when noise > 0, and
\* the retry loops of choose_other_value_int / _str draw when they have to
\* find a different value
learn_sites(other, obs, noise) ==
  (IF noise > 0 THEN {172, 174, 176, 178} ELSE {})
    \cup (IF obs.house # other.house_id THEN {155} ELSE {})
    \cup (IF obs.drink # other.drink \/ obs.smokes # other.smokes \/ obs.pet # other.pet
          THEN {146} ELSE {})

\* learn_direct that records the house counted from 0
learn_direct_ZeroBased(belief, other_idx, obs) ==
  [houses |-> Put(belief.houses, other_idx, obs.house - 1),
   drinks |-> Put(belief.drinks, other_idx, obs.drink),
   smokes |-> Put(belief.smokes, other_idx, obs.smokes),
   pets |-> Put(belief.pets, other_idx, obs.pet)]

learn_direct(belief, other_idx, obs) ==
  [houses |-> Put(belief.houses, other_idx, obs.house),
   drinks |-> Put(belief.drinks, other_idx, obs.drink),
   smokes |-> Put(belief.smokes, other_idx, obs.smokes),
   pets |-> Put(belief.pets, other_idx, obs.pet)]

\* merge_beliefs without its last line: the pets are not merged
merge_beliefs_NoPets(dst, src) ==
  [houses |-> DictUpdate(dst.houses, src.houses),
   drinks |-> DictUpdate(dst.drinks, src.drinks),
   smokes |-> DictUpdate(dst.smokes, src.smokes),
   pets |-> dst.pets]

\* merge_beliefs that replaces dst by src instead of updating it
merge_beliefs_Replace(dst, src) == src

merge_beliefs(dst, src) ==
  [houses |-> DictUpdate(dst.houses, src.houses),
   drinks |-> DictUpdate(dst.drinks, src.drinks),
   smokes |-> DictUpdate(dst.smokes, src.smokes),
   pets |-> DictUpdate(dst.pets, src.pets)]

\* the two stores after the call merge_beliefs(dst, src): only dst is written
after_merge(dst, src) == [dst |-> merge_beliefs(dst, src), src |-> src]

\* known facts of a belief store (numerator of sa_any)
Known(b) ==
  Cardinality(DOMAIN b.houses) + Cardinality(DOMAIN b.drinks)
    + Cardinality(DOMAIN b.smokes) + Cardinality(DOMAIN b.pets)

\* ok that counts every recorded fact, right or wrong
Ok_CountsAll(b, ag) ==
  Cardinality(DOMAIN b.houses) + Cardinality(DOMAIN b.drinks)
    + Cardinality(DOMAIN b.smokes) + Cardinality(DOMAIN b.pets)

\* correct facts of a belief store (numerator of sa_m1_true)
Ok(b, ag) ==
  Cardinality({j \in DOMAIN b.houses : b.houses[j] = ag[j].house_id})
    + Cardinality({j \in DOMAIN b.drinks : b.drinks[j] = ag[j].drink})
    + Cardinality({j \in DOMAIN b.smokes : b.smokes[j] = ag[j].smokes})
    + Cardinality({j \in DOMAIN b.pets : b.pets[j] = ag[j].pet})

\* sa_any as the fraction <<known, total>>; 0.0 when total = 0
sa_any(b, n) ==
  LET total == 4 * n IN IF total > 0 THEN <<Known(b), total>> ELSE <<0, 1>>

\* sa_m1_true as the fraction <<ok, total>>; 0.0 when total = 0
sa_m1_true(b, ag, n) ==
  LET total == 4 * n IN IF total > 0 THEN <<Ok(b, ag), total>> ELSE <<0, 1>>

\* --------------------------------------------------------------- event log
\* a row left as short as it was built
_pad_row_Bare(row) == row

_pad_row(row) ==
  IF Len(row) >= Width THEN SubSeq(row, 1, Width)
  ELSE row \o [k \in 1 .. (Width - Len(row)) |-> ""]

\* -------------------------------------------------------------- population
NoTrip(house_id) ==
  [active |-> FALSE, from_house |-> house_id, to_house |-> house_id,
   days_left |-> 0, start_event_id |-> 0]

\* Strategy(1/3, 1/3, 1/3, 0.0, 0.0), and a strategy row that always agrees to exchange
DefaultStrategy ==
  [p_left |-> Grain \div 3, p_right |-> Grain \div 3, p_home |-> Grain - 2 * (Grain \div 3),
   p_house_exch |-> 0, p_pet_exch |-> 0]

EagerStrategy ==
  [p_left |-> Grain \div 3, p_right |-> Grain \div 3, p_home |-> Grain - 2 * (Grain \div 3),
   p_house_exch |-> Grain, p_pet_exch |-> Grain]

\* a strategy row whose three movement values do not sum to 1 (each of them
\* (Grain - 1) / Grain, as _to_prob returns them for a row such as 0.67;0.67;0.67)
UnevenStrategy ==
  [p_left |-> Grain - 1, p_right |-> Grain - 1, p_home |-> Grain - 1,
   p_house_exch |-> 0, p_pet_exch |-> 0]

build_agents(n, houses, strategy) ==
  [i \in 0 .. (n - 1) |->
     [house_id |-> (i % houses) + 1,
      location |-> (i % houses) + 1,
      drink |-> i % DomSize,
      smokes |-> i % DomSize,
      pet |-> i % DomSize,
      strategy |-> strategy,
      trip |-> NoTrip((i % houses) + 1)]]

\* what is at the path of an instance file: nothing, a well-formed table, a
\* table that lacks a column or holds a house that is no integer, or a file
\* that open() refuses
FileStates == {"missing", "good", "malformed", "unreadable"}

\* Path(p).exists()
exists(file) == file # "missing"

\* read_zebra_init and read_strategies raise on a file they cannot open (lines
\* 62, 77) and on a row they cannot convert (r["H"], int(), float(): lines 65, 82-86)
raises(file) == file \in {"malformed", "unreadable"}

\* lines 235-260: one agent per row of the instance (houses 1 .. 6 in sorted
\* order), each with the row of the strategy table
instance_agents(strategy) ==
  [i \in 0 .. (SixHouses - 1) |->
     [house_id |-> i + 1,
      location |-> i + 1,
      drink |-> i % DomSize,
      smokes |-> i % DomSize,
      pet |-> i % DomSize,
      strategy |-> strategy,
      trip |-> NoTrip(i + 1)]]

\* the call of build_agents for a run: the population, or the exception that
\* ends the call (raised)
built(c) ==
  IF c.n_agents = SixHouses /\ c.n_houses = SixHouses
       /\ exists(c.zebra_init) /\ exists(c.zebra_strat)
  THEN IF raises(c.zebra_init) \/ raises(c.zebra_strat)
       THEN [raised |-> TRUE, agents |-> <<>>]
       ELSE [raised |-> FALSE, agents |-> instance_agents(c.strategy)]
  ELSE [raised |-> FALSE, agents |-> build_agents(c.n_agents, c.n_houses, c.strategy)]

\* the runs explored: population size, ring size (a single house included),
\* day count (none and a negative one included), sharing mode, noise (never,
\* sometimes, always), strategies, and what the two instance files hold
Configs ==
  {c \in [n_agents : (2 .. MaxAgents) \cup {RingSize, SixHouses},
          n_houses : (1 .. MaxHouses) \cup {RingSize, SixHouses},
          days : {-1, 0, NoisyDays, MaxDays},
          share_mode : {"none", "meet"},
          noise : {0, 1, Grain},
          strategy : {DefaultStrategy, EagerStrategy, UnevenStrategy},
          zebra_init : FileStates,
          zebra_strat : FileStates] :
     \/ /\ c.zebra_init = "missing" /\ c.zebra_strat = "missing"
        /\ c.n_agents <= MaxAgents
        /\ c.n_houses \in (1 .. MaxHouses) \cup {SixHouses}
        /\ \/ c.days = (IF c.noise > 0 THEN NoisyDays ELSE MaxDays)
           \/ /\ c.days <= 0 /\ c.noise = 0 /\ c.n_agents = 2 /\ c.n_houses = 2
              /\ c.share_mode = "none" /\ c.strategy = DefaultStrategy
        /\ (c.noise > 0 => c.n_agents <= NoisyAgents /\ c.n_houses <= 2)
        /\ (c.noise = Grain => c.strategy = DefaultStrategy)
        /\ (c.n_houses = SixHouses => c.n_agents = 2)
        /\ (c.strategy = UnevenStrategy =>
              c.n_agents = 2 /\ c.n_houses = MaxHouses /\ c.noise = 0 /\ c.days > 0)
     \/ /\ c.n_agents = RingSize /\ c.n_houses = RingSize
        /\ c.zebra_init = "missing" /\ c.zebra_strat = "missing"
        /\ c.days = NoisyDays /\ c.noise = 0
        /\ c.share_mode = "none" /\ c.strategy = DefaultStrategy
     \/ /\ c.n_agents = c.n_houses /\ c.n_agents \in {2, SixHouses}
        /\ c.days = 0 /\ c.noise = 0
        /\ c.share_mode = "none" /\ c.strategy = DefaultStrategy}

Init ==
  /\ cfg \in Configs
  /\ agents = built(cfg).agents
  /\ beliefs = init_beliefs(agents)
  /\ day = 1
  /\ pc = IF built(cfg).raised THEN "raised"
          ELSE IF cfg.days >= 1 THEN "finish" ELSE "done"
  /\ cur = 0
  /\ r = 0
  /\ arrived_today = <<>>
  /\ host_by_house = <<>>
  /\ event_id = 0
  /\ log_rows = <<>>
  /\ sa_rows = <<>>
  /\ drawn = {}
  /\ written = {}

\* ------------------------------------------------------------- day loop
\* HostExists without the `if x.trip.active: continue` of line 325
HostExists_CountsTravelers(ag, dest) ==
  \E x \in DOMAIN ag : ag[x].house_id = dest /\ ag[x].location = dest

\* a scan that passes over the traveler that has just been set down
HostExists_NotTheArrival(ag, dest) ==
  \E x \in DOMAIN ag :
    /\ ~ag[x].trip.active /\ ag[x].house_id = dest /\ ag[x].location = dest
    /\ ~(ag[x].trip.start_event_id > 0 /\ ag[x].trip.days_left <= 0 /\ ag[x].trip.to_house = dest
           /\ ag[x].trip.from_house # dest)

\* some agent at home at `dest` and not traveling (the scan of lines 323-329)
HostExists(ag, dest) ==
  \E x \in DOMAIN ag :
    ~ag[x].trip.active /\ ag[x].house_id = dest /\ ag[x].location = dest

\* the position after iteration `i` of a loop over the agents
AfterAgent(i, here, next) ==
  IF i + 1 < n_agents THEN [pc |-> here, cur |-> i + 1] ELSE [pc |-> next, cur |-> 0]

\* the position after iteration `k` of a loop over arrived_today (1-based)
AfterVisitor(k, here, next) ==
  IF k < Len(arrived_today) THEN [pc |-> here, cur |-> k + 1]
  ELSE [pc |-> next, cur |-> IF next = "return" THEN 1 ELSE 0]

\* a Trip(active=True, ...) as lines 340, 410 and 429 build it
NewTrip(from_h, to_h, d, eid) ==
  [active |-> TRUE, from_house |-> from_h, to_house |-> to_h,
   days_left |-> d, start_event_id |-> eid]

\* 1) lines 309-334: agent `cur` counts a travel day down; a trip that reaches 0
\*    ends at its destination and its FinishTrip row is logged
FinishTrips ==
  /\ pc = "finish"
  /\ LET a == agents[cur]
         left == a.trip.days_left - 1
         dest == a.trip.to_house
         landed == [agents EXCEPT ![cur].trip.days_left = left,
                                  ![cur].location = dest,
                                  ![cur].trip.active = FALSE]
         res == IF HostExists(landed, dest) THEN 1 ELSE 0
         nxt == AfterAgent(cur, "finish", "hosts")
     IN \/ /\ ~a.trip.active
           /\ pc' = nxt.pc /\ cur' = nxt.cur
           /\ UNCHANGED <<agents, r, event_id, log_rows>>
        \/ /\ a.trip.active /\ left > 0
           /\ agents' = [agents EXCEPT ![cur].trip.days_left = left]
           /\ pc' = nxt.pc /\ cur' = nxt.cur
           /\ UNCHANGED <<r, event_id, log_rows>>
        \/ /\ a.trip.active /\ left <= 0
           /\ agents' = landed
           /\ r' = res
           /\ event_id' = event_id + 1
           /\ log_rows' = Append(log_rows,
                _pad_row(<<event_id + 1, day, "FinishTrip", a.trip.start_event_id, cur, res>>))
           /\ pc' = "resolve"
           /\ UNCHANGED cur
  /\ drawn' = {}
  /\ UNCHANGED <<cfg, written, beliefs, day, arrived_today, host_by_house, sa_rows>>

\* arrived_after that appends whatever the result was
arrived_after_Always(arrived, idx, res) == Append(arrived, idx)

\* lines 336 and 342-343: arrived_today after a FinishTrip with result `res`
arrived_after(arrived, idx, res) == IF res = 0 THEN arrived ELSE Append(arrived, idx)

\* 1) lines 336-343: nobody home (r = 0): the traveler turns back to its own house;
\*    otherwise it has arrived today
ResolveArrival ==
  /\ pc = "resolve"
  /\ LET a == agents[cur]
         dest == a.location
         to_home == a.house_id
         d == travel_days(dest, to_home, cfg.n_houses)
         nxt == AfterAgent(cur, "finish", "hosts")
     IN /\ \/ /\ r = 0
              /\ event_id' = event_id + 1
              /\ agents' = [agents EXCEPT ![cur].trip = NewTrip(dest, to_home, d, event_id + 1)]
              /\ log_rows' = Append(log_rows,
                   _pad_row(<<event_id + 1, day, "startTrip", cur, dest, to_home, d>>))
           \/ /\ r # 0
              /\ UNCHANGED <<agents, event_id, log_rows>>
        /\ arrived_today' = arrived_after(arrived_today, cur, r)
        /\ pc' = nxt.pc /\ cur' = nxt.cur
        /\ r' = 0
  /\ drawn' = {}
  /\ UNCHANGED <<cfg, written, beliefs, day, host_by_house, sa_rows>>

\* the dict of lines 346-351: a later agent at home in the same house overwrites
host_map(ag) ==
  LET AtHome(x) == ~ag[x].trip.active /\ ag[x].location = ag[x].house_id
      Houses == {ag[x].location : x \in {y \in DOMAIN ag : AtHome(y)}}
  IN [h \in Houses |->
        CHOOSE x \in DOMAIN ag :
          /\ AtHome(x) /\ ag[x].location = h
          /\ \A y \in DOMAIN ag : (AtHome(y) /\ ag[y].location = h) => y <= x]

\* 2) lines 346-351
BuildHosts ==
  /\ pc = "hosts"
  /\ host_by_house' = host_map(agents)
  /\ pc' = IF arrived_today = <<>> THEN "sample" ELSE "interact"
  /\ cur' = IF arrived_today = <<>> THEN 0 ELSE 1
  /\ drawn' = {}
  /\ UNCHANGED <<cfg, written, agents, beliefs, day, r, arrived_today, event_id, log_rows, sa_rows>>

\* one coin of lines 373 and 386: rng.random() <= p
Flip(x, p) == x <= p

\* rng.random() <= visitor's p and rng.random() <= host's p, over all draws
BothAgree(pv, ph) ==
  {b \in BOOLEAN : \E x \in Draws : \E y \in Draws : b = (Flip(x, pv) /\ Flip(y, ph))}

\* the swap written as two assignments: both end with the host's value
Swapped_Overwrite(pair) == <<pair[2], pair[2]>>

\* lines 376 and 389: the two values change hands
Swapped(pair) == <<pair[2], pair[1]>>

\* 3) lines 354-397: the visitor arrived_today[cur] meets the host of its house
Interact ==
  /\ pc = "interact"
  /\ LET v == arrived_today[cur]
         house == agents[v].location
         nxt == AfterVisitor(cur, "interact", "return")
     IN /\ pc' = nxt.pc /\ cur' = nxt.cur
        /\ \/ /\ house \notin DOMAIN host_by_house
              /\ UNCHANGED <<agents, beliefs, event_id, log_rows>>
              /\ drawn' = {}
           \/ /\ house \in DOMAIN host_by_house
              /\ host_by_house[house] = v
              /\ UNCHANGED <<agents, beliefs, event_id, log_rows>>
              /\ drawn' = {}
           \/ /\ house \in DOMAIN host_by_house
              /\ host_by_house[house] # v
              /\ LET h == host_by_house[house]
                     visitor == agents[v]
                     host == agents[h]
                 IN \E ov \in LearnOutcomes(host, cfg.n_houses, cfg.noise),
                       oh \in LearnOutcomes(visitor, cfg.n_houses, cfg.noise),
                       doPet \in BothAgree(visitor.strategy.p_pet_exch, host.strategy.p_pet_exch),
                       doHouse \in BothAgree(visitor.strategy.p_house_exch, host.strategy.p_house_exch) :
                      LET bv1 == learn_direct(beliefs[v], h, ov)
                          bh1 == learn_direct(beliefs[h], v, oh)
                          m1 == after_merge(bv1, bh1)
                          m2 == after_merge(m1.src, m1.dst)
                          bv2 == IF cfg.share_mode = "meet" THEN m2.src ELSE bv1
                          bh2 == IF cfg.share_mode = "meet" THEN m2.dst ELSE bh1
                          pets == IF doPet THEN Swapped(<<visitor.pet, host.pet>>)
                                  ELSE <<visitor.pet, host.pet>>
                          bv3 == IF doPet THEN [bv2 EXCEPT !.pets = Put(bv2.pets, v, pets[1])] ELSE bv2
                          bh3 == IF doPet THEN [bh2 EXCEPT !.pets = Put(bh2.pets, h, pets[2])] ELSE bh2
                          eid1 == IF doPet THEN event_id + 1 ELSE event_id
                          log1 == IF doPet
                                  THEN Append(log_rows,
                                         _pad_row(<<eid1, day, "changePet", v, h,
                                                    visitor.pet, host.pet, pets[1], pets[2]>>))
                                  ELSE log_rows
                          homes == IF doHouse THEN Swapped(<<visitor.house_id, host.house_id>>)
                                   ELSE <<visitor.house_id, host.house_id>>
                          bv4 == IF doHouse THEN [bv3 EXCEPT !.houses = Put(bv3.houses, v, homes[1])] ELSE bv3
                          bh4 == IF doHouse THEN [bh3 EXCEPT !.houses = Put(bh3.houses, h, homes[2])] ELSE bh3
                          eid2 == IF doHouse THEN eid1 + 1 ELSE eid1
                          log2 == IF doHouse
                                  THEN Append(log1,
                                         _pad_row(<<eid2, day, "changeHouse", v, h,
                                                    visitor.house_id, host.house_id, homes[1], homes[2]>>))
                                  ELSE log1
                      IN /\ agents' = [agents EXCEPT ![v].pet = pets[1], ![h].pet = pets[2],
                                                     ![v].house_id = homes[1], ![h].house_id = homes[2]]
                         /\ beliefs' = [beliefs EXCEPT ![v] = bv4, ![h] = bh4]
                         /\ event_id' = eid2
                         /\ log_rows' = log2
                         /\ drawn' = learn_sites(host, ov, cfg.noise)
                                        \cup learn_sites(visitor, oh, cfg.noise) \cup {373, 386}
  /\ UNCHANGED <<cfg, written, day, r, arrived_today, host_by_house, sa_rows>>

\* return_trip that swaps origin and destination
return_trip_Reversed(a, n_houses, eid) ==
  NewTrip(a.house_id, a.location, travel_days(a.house_id, a.location, n_houses), eid)

\* lines 406-410: the trip from where the visitor stands to its own house
return_trip(a, n_houses, eid) ==
  NewTrip(a.location, a.house_id, travel_days(a.location, a.house_id, n_houses), eid)

\* 4) lines 400-411: a visitor that is not at its own house starts the trip home
ReturnHome ==
  /\ pc = "return"
  /\ LET v == arrived_today[cur]
         a == agents[v]
         from_h == a.location
         to_h == a.house_id
         d == travel_days(from_h, to_h, cfg.n_houses)
         nxt == AfterVisitor(cur, "return", "sample")
     IN /\ pc' = nxt.pc /\ cur' = nxt.cur
        /\ \/ /\ a.trip.active \/ a.location = a.house_id
              /\ UNCHANGED <<agents, event_id, log_rows>>
           \/ /\ ~a.trip.active /\ a.location # a.house_id
              /\ event_id' = event_id + 1
              /\ agents' = [agents EXCEPT ![v].trip = return_trip(a, cfg.n_houses, event_id + 1)]
              /\ log_rows' = Append(log_rows,
                   _pad_row(<<event_id + 1, day, "startTrip", v, from_h, to_h, d>>))
  /\ drawn' = {}
  /\ UNCHANGED <<cfg, written, beliefs, day, r, arrived_today, host_by_house, sa_rows>>

\* MaySample without the `if a.trip.active: continue` of line 415
MaySample_NoActiveCheck(a) == a.location = a.house_id

\* MaySample without the `if a.location != a.house_id: continue` of line 417
MaySample_NoHomeCheck(a) == ~a.trip.active

\* who lines 415-418 let through to sample_direction
MaySample(a) == ~a.trip.active /\ a.location = a.house_id

\* 5) lines 414-430: agent `cur`, at home, draws a direction and may leave
SampleTrips ==
  /\ pc = "sample"
  /\ LET a == agents[cur]
         nxt == AfterAgent(cur, "sample", "sa")
     IN /\ pc' = nxt.pc /\ cur' = nxt.cur
        /\ drawn' = IF MaySample(a) THEN {118} ELSE {}
        /\ \/ /\ ~MaySample(a)
              /\ UNCHANGED <<agents, event_id, log_rows>>
           \/ /\ MaySample(a)
              /\ \E x \in Draws :
                   LET direction == sample_direction(a.strategy, x)
                       from_h == a.location
                       to_h == IF direction = "left" THEN neighbor_left(a.location, cfg.n_houses)
                               ELSE neighbor_right(a.location, cfg.n_houses)
                       d == travel_days(from_h, to_h, cfg.n_houses)
                   IN IF direction = "home"
                      THEN UNCHANGED <<agents, event_id, log_rows>>
                      ELSE /\ event_id' = event_id + 1
                           /\ agents' = [agents EXCEPT ![cur].trip = NewTrip(from_h, to_h, d, event_id + 1)]
                           /\ log_rows' = Append(log_rows,
                                _pad_row(<<event_id + 1, day, "startTrip", cur, from_h, to_h, d>>))
  /\ UNCHANGED <<cfg, written, beliefs, day, r, arrived_today, host_by_house, sa_rows>>

RECURSIVE SumOver(_, _)
SumOver(f, S) ==
  IF S = {} THEN 0
  ELSE LET x == CHOOSE y \in S : TRUE IN f[x] + SumOver(f, S \ {x})

\* 6) lines 433-442, then the next iteration of line 305 (arrived_today = [])
LogSA ==
  /\ pc = "sa"
  /\ sa_rows' = Append(sa_rows,
       <<day,
         SumOver([i \in Idx |-> Known(beliefs[i])], Idx),
         SumOver([i \in Idx |-> Ok(beliefs[i], agents)], Idx)>>)
  /\ IF day < cfg.days
     THEN /\ day' = day + 1
          /\ pc' = "finish"
     ELSE /\ pc' = "done"
          /\ UNCHANGED day
  /\ cur' = 0
  /\ arrived_today' = <<>>
  /\ drawn' = {}
  /\ UNCHANGED <<cfg, written, agents, beliefs, r, host_by_house, event_id, log_rows>>

\* lines 444-458: after the last day the event log and the metrics table are
\* written, header first (log_path and sa_path as main() sets them by default)
WriteFiles ==
  /\ pc = "done"
  /\ written' = written \cup {"log", "sa"}
  /\ pc' = "exit"
  /\ drawn' = {}
  /\ UNCHANGED <<cfg, agents, beliefs, day, cur, r, arrived_today, host_by_house,
                 event_id, log_rows, sa_rows>>

Next ==
  \/ FinishTrips
  \/ ResolveArrival
  \/ BuildHosts
  \/ Interact
  \/ ReturnHome
  \/ SampleTrips
  \/ LogSA
  \/ WriteFiles

Spec == Init /\ [][Next]_vars

\* run_sim is one sequential loop: whatever step comes next is taken, and a
\* retry loop that has a value to find finds it (fair draws)
FairSpec == Spec /\ WF_vars(Next)

\* ======================================================================
\* run_session (src/simulator/engine.py)
\* ======================================================================

_clamp_int(x, lo, hi) == IF x < lo THEN lo ELSE IF x > hi THEN hi ELSE x

\* a weight taken as it comes, negative or not
Max0_Keep(x) == x

\* max(0, x)
Max0(x) == IF x > 0 THEN x ELSE 0

\* int(round(num / den)) for num >= 0, den > 0: Python rounds a half to even
RoundDiv(num, den) ==
  LET q == num \div den
      rem == num % den
  IN IF 2 * rem < den THEN q
     ELSE IF 2 * rem > den THEN q + 1
     ELSE IF q % 2 = 0 THEN q ELSE q + 1

_norm3(a, b, c) ==
  LET s == Max0(a) + Max0(b) + Max0(c)
      aa == RoundDiv(Percent * Max0(a), s)
      bb == RoundDiv(Percent * Max0(b), s)
      cc == Percent - aa - bb
  IN IF s <= 0 THEN <<33, 33, 34>>
     ELSE IF cc >= 0 THEN <<aa, bb, cc>>
     ELSE IF aa + bb > 0
          THEN LET a2 == RoundDiv(aa * Percent, aa + bb) IN <<a2, Percent - a2, 0>>
          ELSE <<33, 33, 34>>

\* _pick_weighted on the draw x: r = x / Grain * total, first value with r <= acc
_pick_weighted(x, items) ==
  LET total == Max0(items[1][2]) + Max0(items[2][2]) + Max0(items[3][2])
      acc1 == Max0(items[1][2])
      acc2 == acc1 + Max0(items[2][2])
      acc3 == acc2 + Max0(items[3][2])
  IN IF total <= 0 THEN items[3][1]
     ELSE IF x * total <= acc1 * Grain THEN items[1][1]
     ELSE IF x * total <= acc2 * Grain THEN items[2][1]
     ELSE items[3][1]

RECURSIVE _wrap_house(_, _)
_wrap_house(x, houses) ==
  IF x < 1 THEN _wrap_house(x + houses, houses)
  ELSE IF x > houses THEN _wrap_house(x - houses, houses)
  ELSE x

\* mt_for without the comparison of line 124: the override is everybody's
mt_for_Everyone(name, c) ==
  IF c.mt_who = {} \/ c.mt_strategy = {} THEN {} ELSE c.mt_strategy

\* mt_for: the override of agent `name`; None is the empty set, a value v is {v}
mt_for(name, c) ==
  IF c.mt_who = {} \/ c.mt_strategy = {} THEN {}
  ELSE IF name \notin c.mt_who THEN {}
  ELSE c.mt_strategy

\* lines 176-184: the five numbers agent `name` plays with
strategy_of(name, c) ==
  LET found == mt_for(name, c)
  IN IF found = {}
     THEN [p_left |-> 33, p_right |-> 33, p_home |-> 34, p_house_exch |-> 10, p_pet_exch |-> 10]
     ELSE LET strat == CHOOSE st \in found : TRUE
              n3 == _norm3(strat.p_left, strat.p_right, strat.p_home)
          IN [p_left |-> n3[1], p_right |-> n3[2], p_home |-> n3[3],
              p_house_exch |-> _clamp_int(strat.p_house_exch, 0, Percent),
              p_pet_exch |-> _clamp_int(strat.p_pet_exch, 0, Percent)]

\* rng.randint(1, 100) <= p, over all draws
PercentHit(p) == {b \in BOOLEAN : \E x \in 1 .. Percent : b = (x <= p)}

\* rng.random() < 0.4, over all draws
SkipMove == {b \in BOOLEAN : \E x \in Draws : b = (10 * x < 4 * Grain)}

\* log_event: the row, numbers standing for their str()
log_event(eid, d, kind, cols) ==
  LET row == <<eid, d, kind>> \o cols
  IN IF Len(row) >= Width THEN SubSeq(row, 1, Width)
     ELSE row \o [k \in 1 .. (Width - Len(row)) |-> ""]

total_facts(c) == c.houses * FactsPerHouse

\* line 247: the awareness value of the metrics row, as the fraction <<known, total_facts>>
m1(known, c) == <<known, total_facts(c)>>

\* min(total_facts, ...) gone: the counter just grows
Min_Uncapped(a, b) == b

Min(a, b) == IF a < b THEN a ELSE b

\* lines 191 and 199: a.f, b.f = b.f, a.f
exchange(ag, a, b, field) ==
  [ag EXCEPT ![a][field] = ag[b][field], ![b][field] = ag[a][field]]

session_agents(c) ==
  [i \in 0 .. (c.agents - 1) |->
     [house_id |-> (i % c.houses) + 1,
      location |-> (i % c.houses) + 1,
      pet_id |-> (i % c.houses) + 1,
      trip |-> [active |-> FALSE, dst |-> (i % c.houses) + 1, remaining |-> 0],
      known |-> 0]]

\* no override, an override for a0 that always exchanges and never stays, and
\* one that names an agent that does not exist
NoOverride == [mt_who |-> {}, mt_strategy |-> {}]

Overrides ==
  {NoOverride,
   [mt_who |-> {0},
    mt_strategy |-> {[p_left |-> 1, p_right |-> 1, p_home |-> 0,
                      p_house_exch |-> Percent, p_pet_exch |-> Percent]}],
   [mt_who |-> {SessionAgents + 1},
    mt_strategy |-> {[p_left |-> 1, p_right |-> 0, p_home |-> 0,
                      p_house_exch |-> 0, p_pet_exch |-> 0]}]}

\* movement weights an override can carry: negative, zero, and positive ones
\* whose shares of 100 fall on a half (1 of 8, 7 of 8) or between integers
Weights == {-1, 0, 1, 7}

\* overrides for a0 over all weight triples, with one exchange percentage
\* below 0 and the other above 100
WeightedOverrides ==
  {[mt_who |-> {0},
    mt_strategy |-> {[p_left |-> a, p_right |-> b, p_home |-> c,
                      p_house_exch |-> e, p_pet_exch |-> Percent - e]}] :
     a \in Weights, b \in Weights, c \in Weights, e \in {-1, Percent + 1}}

\* the sessions explored: one house or two, noise only where it is read
\* (share = "meet"), overrides in noise-free sessions, one-day sessions for
\* the weighted overrides, and a session with a negative day count
SessionConfigs ==
  {c \in [agents : 2 .. SessionAgents, houses : {1, 2}, days : {-1, 1, SessionDays},
          share : {"none", "meet"}, noise : {0, 1},
          mt_who : {o.mt_who : o \in Overrides \cup WeightedOverrides},
          mt_strategy : {o.mt_strategy : o \in Overrides \cup WeightedOverrides}] :
     LET o == [mt_who |-> c.mt_who, mt_strategy |-> c.mt_strategy]
     IN \/ /\ o \in Overrides
           /\ c.days = SessionDays
           /\ (c.noise > 0 => c.share = "meet" /\ c.mt_who = {})
           /\ (c.mt_who \notin {{}, {0}} => c.share = "none")
        \/ /\ o \in WeightedOverrides
           /\ c.days = 1 /\ c.agents = 2 /\ c.houses = 2
           /\ c.share = "none" /\ c.noise = 0
        \/ /\ o = NoOverride
           /\ c.days = -1 /\ c.agents = 2 /\ c.houses = 2
           /\ c.share = "none" /\ c.noise = 0}

\* lines 87-163: the state before the first day; the metrics file is open and
\* holds its header
InitSession ==
  /\ cfg \in SessionConfigs
  /\ agents = session_agents(cfg)
  /\ beliefs = <<>>
  /\ day = 1
  /\ pc = IF cfg.days >= 1 THEN "s_agent" ELSE "s_done"
  /\ cur = 0
  /\ r = 0
  /\ arrived_today = <<>>
  /\ host_by_house = <<>>
  /\ event_id = 0
  /\ log_rows = <<>>
  /\ sa_rows = <<>>
  /\ drawn = {}
  /\ written = {"metrics"}

\* lines 166-225: agent `cur` on one day
SessionAgent ==
  /\ pc = "s_agent"
  /\ LET a == agents[cur]
         nxt == AfterAgent(cur, "s_agent", "s_share")
         tf == total_facts(cfg)
     IN /\ pc' = nxt.pc /\ cur' = nxt.cur
        /\ \/ /\ a.trip.active /\ a.trip.remaining - 1 > 0
              /\ agents' = [agents EXCEPT ![cur].trip.remaining = @ - 1]
              /\ drawn' = {}
              /\ UNCHANGED <<event_id, log_rows>>
           \/ /\ a.trip.active /\ a.trip.remaining - 1 <= 0
              /\ agents' = [agents EXCEPT ![cur].trip.remaining = @ - 1,
                                          ![cur].location = a.trip.dst,
                                          ![cur].trip.active = FALSE,
                                          ![cur].known = Min(tf, a.known + 1)]
              /\ event_id' = event_id + 1
              /\ log_rows' = Append(log_rows,
                   log_event(event_id + 1, day, "FinishTrip", <<cur, a.trip.dst>>))
              /\ drawn' = {}
           \/ /\ ~a.trip.active
              /\ LET st == strategy_of(cur, cfg)
                 IN \E doHouse \in PercentHit(st.p_house_exch), p1 \in Idx,
                       doPet \in PercentHit(st.p_pet_exch), p2 \in Idx,
                       skip \in SkipMove, x \in Draws :
                      LET ag1 == IF doHouse
                                 THEN [exchange(agents, cur, p1, "house_id")
                                         EXCEPT ![cur].known = Min(tf, @ + 2)]
                                 ELSE agents
                          eid1 == IF doHouse THEN event_id + 1 ELSE event_id
                          log1 == IF doHouse
                                  THEN Append(log_rows,
                                         log_event(eid1, day, "changeHouse", <<cur, p1, a.location>>))
                                  ELSE log_rows
                          ag2 == IF doPet
                                 THEN [exchange(ag1, cur, p2, "pet_id")
                                         EXCEPT ![cur].known = Min(tf, @ + 2)]
                                 ELSE ag1
                          eid2 == IF doPet THEN eid1 + 1 ELSE eid1
                          log2 == IF doPet
                                  THEN Append(log1,
                                         log_event(eid2, day, "changePet", <<cur, p2, a.location>>))
                                  ELSE log1
                          did_exch == doHouse \/ doPet
                          direction == _pick_weighted(x,
                                         <<<<"left", st.p_left>>, <<"right", st.p_right>>,
                                           <<"home", st.p_home>>>>)
                          src == a.location
                          dst == IF direction = "home" THEN ag2[cur].house_id
                                 ELSE IF direction = "left" THEN _wrap_house(a.location - 1, cfg.houses)
                                 ELSE _wrap_house(a.location + 1, cfg.houses)
                      IN /\ (~doHouse => p1 = 0) /\ (~doPet => p2 = 0)
                         /\ (~did_exch => ~skip)
                         /\ ((did_exch /\ skip) => x = 0)
                         /\ drawn' = {188, 196}
                                        \cup (IF doHouse THEN {189} ELSE {})
                                        \cup (IF doPet THEN {197} ELSE {})
                                        \cup (IF did_exch THEN {204} ELSE {})
                                        \cup (IF did_exch /\ skip THEN {} ELSE {60})
                         /\ IF (did_exch /\ skip) \/ dst = src
                            THEN /\ agents' = ag2
                                 /\ event_id' = eid2
                                 /\ log_rows' = log2
                            ELSE /\ agents' = [ag2 EXCEPT ![cur].trip =
                                                 [active |-> TRUE, dst |-> dst, remaining |-> 1],
                                               ![cur].known = Min(tf, @ + 1)]
                                 /\ event_id' = eid2 + 1
                                 /\ log_rows' = Append(log2,
                                      log_event(eid2 + 1, day, "startTrip", <<cur, src, dst, 1>>))
  /\ UNCHANGED <<cfg, written, beliefs, day, r, arrived_today, host_by_house, sa_rows>>

\* lines 228-243 for one set of agents that lose a fact to noise: every agent in
\* a house with company takes the best `known` of the house, then may lose one
shared_known(ag, losers) ==
  [i \in DOMAIN ag |->
     LET group == {j \in DOMAIN ag : ag[j].location = ag[i].location}
         best == CHOOSE k \in {ag[j].known : j \in group} :
                   \A j \in group : ag[j].known <= k
     IN IF Cardinality(group) < 2 THEN ag[i].known
        ELSE IF i \in losers /\ best > 0 THEN best - 1
        ELSE best]

\* who can lose a fact: a draw below noise, for agents with company, noise > 0
MayLose(ag, noise) ==
  {i \in DOMAIN ag :
     /\ noise > 0
     /\ \E x \in Draws : x < noise
     /\ Cardinality({j \in DOMAIN ag : ag[j].location = ag[i].location}) >= 2}

\* who can keep its facts
MustLose(ag, noise) ==
  {i \in MayLose(ag, noise) : ~\E x \in Draws : ~(x < noise)}

\* lines 227-249: sharing at the end of the day, then the metrics row
SessionShare ==
  /\ pc = "s_share"
  /\ \E losers \in SUBSET MayLose(agents, cfg.noise) :
       /\ MustLose(agents, cfg.noise) \subseteq losers
       /\ LET kn == IF cfg.share = "meet" THEN shared_known(agents, losers)
                    ELSE [i \in Idx |-> agents[i].known]
          IN /\ (cfg.share # "meet" => losers = {})
             /\ agents' = [i \in Idx |-> [agents[i] EXCEPT !.known = kn[i]]]
             /\ sa_rows' = Append(sa_rows, <<day>> \o [k \in 1 .. n_agents |-> kn[k - 1]])
             /\ drawn' = IF cfg.share = "meet" /\ cfg.noise > 0
                            /\ \E i, j \in Idx : i # j /\ agents[i].location = agents[j].location
                         THEN {241} ELSE {}
  /\ IF day < cfg.days
     THEN /\ day' = day + 1
          /\ pc' = "s_agent"
     ELSE /\ pc' = "s_done"
          /\ UNCHANGED day
  /\ cur' = 0
  /\ UNCHANGED <<cfg, written, beliefs, r, arrived_today, host_by_house, event_id, log_rows>>

\* lines 251-256: the event table and the XML log are written after the last day
SessionWrite ==
  /\ pc = "s_done"
  /\ written' = written \cup {"events", "xml"}
  /\ pc' = "s_exit"
  /\ drawn' = {}
  /\ UNCHANGED <<cfg, agents, beliefs, day, cur, r, arrived_today, host_by_house,
                 event_id, log_rows, sa_rows>>

NextSession ==
  \/ SessionAgent
  \/ SessionShare
  \/ SessionWrite

SpecSession == InitSession /\ [][NextSession]_vars

InSession == pc \in {"s_agent", "s_share", "s_done", "s_exit"}

\* either engine
InitAll == Init \/ InitSession

NextAll == Next \/ NextSession

SpecAll == InitAll /\ [][NextAll]_vars

\* ======================================================================
\* Properties
\* ======================================================================

\* agent a has a FinishTrip row with result `res` on the current day
FinishedToday(a, res) ==
  \E i \in DOMAIN log_rows :
    /\ log_rows[i][3] = "FinishTrip"
    /\ log_rows[i][2] = day
    /\ log_rows[i][5] = a
    /\ log_rows[i][6] = res

Visitors == {arrived_today[k] : k \in DOMAIN arrived_today}

\* C1: a trip that is active is never replaced: from one step to the next an
\* active trip stays as it is, loses one day, or completes at its destination;
\* so a new trip is only ever assigned to an agent whose trip is inactive.
C1_SingleActiveTrip ==
  [][\A a \in Idx :
       agents[a].trip.active =>
         \/ agents'[a].trip = agents[a].trip
         \/ /\ agents'[a].trip.active
            /\ agents'[a].trip = [agents[a].trip EXCEPT !.days_left = @ - 1]
            /\ agents'[a].trip.days_left > 0
         \/ /\ ~agents'[a].trip.active
            /\ agents'[a].trip = [agents[a].trip EXCEPT !.days_left = @ - 1, !.active = FALSE]
            /\ agents'[a].location = agents[a].trip.to_house]_vars

\* C1 witness: an agent is on its second trip (a trip back to its own house)
C1_Witness ==
  \E a \in Idx :
    /\ agents[a].trip.active
    /\ agents[a].trip.start_event_id > 1
    /\ agents[a].trip.from_house # agents[a].house_id
    /\ agents[a].trip.to_house = agents[a].house_id

FailedArrivalAt(i) ==
  /\ log_rows[i][3] = "FinishTrip"
  /\ log_rows[i][2] = day
  /\ log_rows[i][6] = 0

\* C3: once a trip has completed with result 0, then for the rest of that day
\* the next row of the log is the traveler's startTrip from where it stands to
\* its own house, the traveler's trip is that trip, active, with all its days
\* left (the ring distance: 1, or the 6-house table), and no step of that day
\* changes the traveler's beliefs, pet or house.
C3_BounceHome ==
  /\ [](\A i \in DOMAIN log_rows :
          (FailedArrivalAt(i) /\ ~(pc = "resolve" /\ i = Len(log_rows))) =>
            LET a == log_rows[i][5]
                t == agents[a].trip
            IN /\ i < Len(log_rows)
               /\ log_rows[i + 1][3] = "startTrip"
               /\ log_rows[i + 1][1] = log_rows[i][1] + 1
               /\ log_rows[i + 1][2] = day
               /\ log_rows[i + 1][4] = a
               /\ log_rows[i + 1][5] = agents[a].location
               /\ log_rows[i + 1][6] = agents[a].house_id
               /\ log_rows[i + 1][7] = t.days_left
               /\ t.active
               /\ t.from_house = agents[a].location
               /\ t.to_house = agents[a].house_id
               /\ t.from_house # t.to_house
               /\ t.start_event_id = log_rows[i + 1][1]
               /\ t.days_left = (IF cfg.n_houses # 6 THEN 1
                                 ELSE IF t.to_house = (t.from_house % 6) + 1
                                 THEN <<2, 1, 2, 2, 2, 3>>[t.from_house]
                                 ELSE IF t.from_house = (t.to_house % 6) + 1
                                 THEN <<3, 2, 1, 2, 2, 2>>[t.from_house]
                                 ELSE 1)
               /\ a \notin Visitors)
  /\ [][\A a \in Idx :
          FinishedToday(a, 0) =>
            /\ beliefs'[a] = beliefs[a]
            /\ agents'[a].pet = agents[a].pet
            /\ agents'[a].house_id = agents[a].house_id]_vars

\* C3 witness: a traveler has turned back today and the day went on to the
\* meetings of the other arrivals
C3_Witness ==
  /\ pc = "interact"
  /\ \E a \in Idx : FinishedToday(a, 0) /\ agents[a].trip.active

\* C4 as claimed: an agent that completed a trip today starts no sampled trip today.
C4_NoSampleAfterFinish ==
  [][(pc = "sample" /\ agents'[cur].trip # agents[cur].trip) =>
       ~(FinishedToday(cur, 0) \/ FinishedToday(cur, 1))]_vars

\* C4 amended: a sampled trip is started only for an agent that is stationary
\* and at its own house, and never for one whose trip failed today (result 0);
\* an agent that arrived today with result 1 and stands at its own house is
\* sampled like any other.
C4_SampleOnlyAtHome ==
  [][(pc = "sample" /\ agents'[cur].trip # agents[cur].trip) =>
       /\ ~agents[cur].trip.active
       /\ agents[cur].location = agents[cur].house_id
       /\ ~FinishedToday(cur, 0)
       /\ agents'[cur].trip.active
       /\ agents'[cur].trip.from_house = agents[cur].house_id]_vars

\* C4 witness: an agent that arrived today is on a sampled trip the same day
C4_Witness ==
  /\ pc = "sa"
  /\ \E v \in Visitors :
       /\ agents[v].trip.active
       /\ agents[v].trip.from_house = agents[v].house_id
       /\ log_rows[agents[v].trip.start_event_id][2] = day

\* C5: an agent's belief store, pet or house changes only in a meeting, and
\* then the agent is the visitor (it completed a trip with result 1 today and is
\* not traveling) or the agent met by it: another agent, not traveling, standing
\* in the visitor's house and entered as that house's host this day.
C5_OnlyVisitorAndHostChange ==
  [][\A a \in Idx :
       (\/ beliefs'[a] # beliefs[a]
        \/ agents'[a].pet # agents[a].pet
        \/ agents'[a].house_id # agents[a].house_id) =>
         /\ pc = "interact"
         /\ LET v == arrived_today[cur]
            IN /\ FinishedToday(v, 1)
               /\ ~agents[v].trip.active
               /\ \/ a = v
                  \/ /\ a # v
                     /\ ~agents[a].trip.active
                     /\ agents[a].location = agents[v].location
                     /\ agents[v].location \in DOMAIN host_by_house
                     /\ host_by_house[agents[v].location] = a]_vars

\* C5 witness: two agents stand in the same house at the end of a day while
\* one of them knows nothing about the other, and elsewhere a meeting took place
C5_Witness ==
  /\ pc = "sa"
  /\ \E a, b \in Idx :
       /\ a # b
       /\ agents[a].location = agents[b].location
       /\ b \notin DOMAIN beliefs[a].pets
  /\ \E a \in Idx : Cardinality(DOMAIN beliefs[a].pets) > 1

\* C6: after the return phase of a day, every agent that arrived that day and
\* does not stand in its own house has an active trip, started that day, from
\* where it stands to its own house.
C6_VisitorsHeadHome ==
  (pc \in {"sample", "sa"}) =>
    \A v \in Visitors :
      agents[v].location # agents[v].house_id =>
        LET t == agents[v].trip
        IN /\ t.active
           /\ t.from_house = agents[v].location
           /\ t.to_house = agents[v].house_id
           /\ t.days_left > 0
           /\ t.start_event_id \in DOMAIN log_rows
           /\ log_rows[t.start_event_id][3] = "startTrip"
           /\ log_rows[t.start_event_id][2] = day
           /\ log_rows[t.start_event_id][4] = v

\* C6 witness: a day ends with a visitor on its way home, and with a visitor
\* whose house was exchanged during its visit
C6_Witness ==
  /\ pc = "sa"
  /\ \E v \in Visitors : agents[v].location # agents[v].house_id

\* C7: no step removes a key from any of the four mappings of any agent.
C7_KnownNeverShrinks ==
  [][\A a \in Idx :
       /\ DOMAIN beliefs[a].houses \subseteq DOMAIN beliefs'[a].houses
       /\ DOMAIN beliefs[a].drinks \subseteq DOMAIN beliefs'[a].drinks
       /\ DOMAIN beliefs[a].smokes \subseteq DOMAIN beliefs'[a].smokes
       /\ DOMAIN beliefs[a].pets \subseteq DOMAIN beliefs'[a].pets
       /\ Known(beliefs'[a]) >= Known(beliefs[a])]_vars

\* C7 witness: with noise, an agent that already knew another agent has met again
\* (a mapping with more than one key, in a noisy run)
C7_Witness ==
  /\ cfg.noise > 0
  /\ \E a \in Idx : Cardinality(DOMAIN beliefs[a].houses) > 1

\* C8 as claimed: every agent's entries about itself are its actual values.
C8_KnowsItself ==
  \A a \in Idx :
    /\ a \in DOMAIN beliefs[a].houses /\ beliefs[a].houses[a] = agents[a].house_id
    /\ a \in DOMAIN beliefs[a].drinks /\ beliefs[a].drinks[a] = agents[a].drink
    /\ a \in DOMAIN beliefs[a].smokes /\ beliefs[a].smokes[a] = agents[a].smokes
    /\ a \in DOMAIN beliefs[a].pets /\ beliefs[a].pets[a] = agents[a].pet

\* how often each value of `field` occurs over the population
Multiset(ag, field) ==
  [v \in {ag[a][field] : a \in DOMAIN ag} |->
     Cardinality({a \in DOMAIN ag : ag[a][field] = v})]

\* the population the run started from
InitialAgents ==
  IF InSession THEN session_agents(cfg)
  ELSE built(cfg).agents

PetField == IF InSession THEN "pet_id" ELSE "pet"

\* C9: in both engines no step changes how often each pet value and each house
\* id occurs over the population, so both multisets stay what they were at
\* the start.
C9_ExchangeConservation ==
  /\ [](/\ Multiset(agents, PetField) = Multiset(InitialAgents, PetField)
        /\ Multiset(agents, "house_id") = Multiset(InitialAgents, "house_id"))
  /\ [][/\ Multiset(agents', PetField) = Multiset(agents, PetField)
        /\ Multiset(agents', "house_id") = Multiset(agents, "house_id")]_vars

\* C9 witness: run_sim has logged a changePet and a changeHouse row, each between
\* two agents whose values differed
C9_Witness ==
  /\ ~InSession
  /\ \E i \in DOMAIN log_rows :
       log_rows[i][3] = "changePet" /\ log_rows[i][6] # log_rows[i][7]
  /\ \E i \in DOMAIN log_rows :
       log_rows[i][3] = "changeHouse" /\ log_rows[i][6] # log_rows[i][7]

\* an exchange row of kind `kind` in which a party's probability `p` is 0
ExchangeAtZero(kind, p) ==
  \E i \in DOMAIN log_rows :
    /\ log_rows[i][3] = kind
    /\ (agents[log_rows[i][4]].strategy[p] = 0 \/ agents[log_rows[i][5]].strategy[p] = 0)

\* C10 as claimed: no changePet (changeHouse) row joins two agents one of whom
\* has pet-exchange (house-exchange) probability 0.
C10_NoExchangeAtZero ==
  /\ ~ExchangeAtZero("changePet", "p_pet_exch")
  /\ ~ExchangeAtZero("changeHouse", "p_house_exch")

\* a fraction <<num, den>> that lies in [0, 1]
InUnit(f) == f[2] > 0 /\ 0 <= f[1] /\ f[1] <= f[2]

\* C12: in run_sim every agent's sa_any and sa_m1_true lie in [0, 1] (known and
\* correct facts between 0 and 4 * n_agents, correct never above known) and so
\* do the daily averages; in run_session every known counter, and every value
\* of a metrics row, lies between 0 and total_facts.
C12_MetricsInUnit ==
  IF InSession
  THEN /\ \A a \in Idx : InUnit(m1(agents[a].known, cfg))
       /\ \A k \in DOMAIN sa_rows : \A j \in 2 .. Len(sa_rows[k]) :
            InUnit(m1(sa_rows[k][j], cfg))
  ELSE /\ \A a \in Idx :
            /\ InUnit(sa_any(beliefs[a], n_agents))
            /\ InUnit(sa_m1_true(beliefs[a], agents, n_agents))
            /\ Ok(beliefs[a], agents) <= Known(beliefs[a])
       /\ \A k \in DOMAIN sa_rows :
            /\ InUnit(<<sa_rows[k][2], 4 * n_agents * n_agents>>)
            /\ InUnit(<<sa_rows[k][3], 4 * n_agents * n_agents>>)

\* C12 witness: a one-house session in which a counter that only grows in twos
\* stands at total_facts = 5 (the cap cut an increment), in a metrics row
C12_Witness ==
  /\ InSession /\ cfg.houses = 1
  /\ \E k \in DOMAIN sa_rows : \E j \in 2 .. Len(sa_rows[k]) :
       sa_rows[k][j] = total_facts(cfg)

\* the facts a store records, as <<mapping, subject>>, and those among them
\* whose recorded value is the subject's current attribute
RecordedFacts(b) ==
  ({"houses"} \X DOMAIN b.houses) \cup ({"drinks"} \X DOMAIN b.drinks)
    \cup ({"smokes"} \X DOMAIN b.smokes) \cup ({"pets"} \X DOMAIN b.pets)

Truth(ag, f) ==
  IF f[1] = "houses" THEN ag[f[2]].house_id
  ELSE IF f[1] = "drinks" THEN ag[f[2]].drink
  ELSE IF f[1] = "smokes" THEN ag[f[2]].smokes
  ELSE ag[f[2]].pet

MatchingFacts(b, ag) == {f \in RecordedFacts(b) : b[f[1]][f[2]] = Truth(ag, f)}

\* C13 as claimed: sa_m1_true is the matching facts over the recorded facts
\* (fractions compared by cross-multiplication).
C13_AccuracyOverKnown ==
  \A a \in Idx :
    LET f == sa_m1_true(beliefs[a], agents, n_agents)
    IN f[1] * Cardinality(RecordedFacts(beliefs[a]))
         = Cardinality(MatchingFacts(beliefs[a], agents)) * f[2]

\* C13 amended: sa_m1_true is the matching facts over 4 * n_agents, the number
\* of all facts and the denominator of sa_any, whatever the store records; the
\* third field of a day's metrics row adds these up over the agents.
C13_AccuracyOverAll ==
  /\ \A a \in Idx :
       sa_m1_true(beliefs[a], agents, n_agents)
         = <<Cardinality(MatchingFacts(beliefs[a], agents)), 4 * n_agents>>
  /\ [][sa_rows' # sa_rows =>
          sa_rows'[Len(sa_rows')][3] =
            SumOver([i \in Idx |-> Cardinality(MatchingFacts(beliefs[i], agents))], Idx)]_vars

\* C13 witness: at the end of a run a store is incomplete and records a fact
\* that is no longer true
C13_Witness ==
  /\ pc = "done"
  /\ \E a \in Idx :
       /\ Cardinality(RecordedFacts(beliefs[a])) < 4 * n_agents
       /\ MatchingFacts(beliefs[a], agents) # RecordedFacts(beliefs[a])
       /\ MatchingFacts(beliefs[a], agents) # {}

Mappings == {"houses", "drinks", "smokes", "pets"}

\* C14: for any two stores a run holds, merge_beliefs(dst, src) leaves in each
\* of the four mappings of dst the union of the two key sets, src's value under
\* every key of src, dst's old value under every key only dst had, and src as
\* it was.
C14_MergeIsUpdate ==
  \A a, b \in Idx :
    a # b =>
      LET dst == beliefs[a]
          src == beliefs[b]
          res == after_merge(dst, src)
      IN /\ res.src = src
         /\ \A m \in Mappings :
              /\ DOMAIN res.dst[m] = (DOMAIN dst[m]) \cup (DOMAIN src[m])
              /\ \A k \in DOMAIN src[m] : res.dst[m][k] = src[m][k]
              /\ \A k \in (DOMAIN dst[m]) \ (DOMAIN src[m]) : res.dst[m][k] = dst[m][k]

\* C14 witness: in a run that merges, two stores disagree about a key both
\* have, and the first has a key the second lacks
C14_Witness ==
  /\ cfg.share_mode = "meet"
  /\ \E a, b \in Idx : \E m \in Mappings :
       /\ a # b
       /\ \E k \in (DOMAIN beliefs[a][m]) \cap (DOMAIN beliefs[b][m]) :
            beliefs[a][m][k] # beliefs[b][m][k]
       /\ (DOMAIN beliefs[a][m]) \ (DOMAIN beliefs[b][m]) # {}

\* the step about to be taken is a meeting: the visitor arrived_today[cur]
\* stands in a house that has a host other than itself
Meeting ==
  /\ pc = "interact"
  /\ agents[arrived_today[cur]].location \in DOMAIN host_by_house
  /\ host_by_house[agents[arrived_today[cur]].location] # arrived_today[cur]

\* the rng call sites inside learn_direct and the functions it calls
LearnSites == {146, 155, 172, 174, 176, 178}

\* what learn_direct has just recorded in x's store about y stays within the
\* domains; with noise = 0 it is y's four values and learn_direct drew nothing;
\* with noise > 0 the four noise tests drew
LearntWithinDomains(x, y) ==
  /\ beliefs'[x].houses[y] \in 1 .. cfg.n_houses
  /\ beliefs'[x].drinks[y] \in Domains.drinks
  /\ beliefs'[x].smokes[y] \in Domains.smokes
  /\ beliefs'[x].pets[y] \in Domains.pets
  /\ cfg.noise = 0 =>
       /\ beliefs'[x].houses[y] = agents[y].house_id
       /\ beliefs'[x].drinks[y] = agents[y].drink
       /\ beliefs'[x].smokes[y] = agents[y].smokes
       /\ beliefs'[x].pets[y] = agents[y].pet
       /\ drawn' \cap LearnSites = {}
  /\ cfg.noise > 0 => {172, 174, 176, 178} \subseteq drawn'

\* C15 as claimed: in a meeting without sharing, what each side records about
\* the other is as LearntWithinDomains says, and an attribute that noise
\* corrupts (noise = 1.0 corrupts every one) is recorded with a value other
\* than the true one.
C15_CorruptedDiffers ==
  [][(Meeting /\ cfg.share_mode = "none") =>
       LET v == arrived_today[cur]
           h == host_by_house[agents[v].location]
       IN \A p \in {<<v, h>>, <<h, v>>} :
            /\ LearntWithinDomains(p[1], p[2])
            /\ cfg.noise = Grain =>
                 /\ beliefs'[p[1]].houses[p[2]] # agents[p[2]].house_id
                 /\ beliefs'[p[1]].drinks[p[2]] # agents[p[2]].drink
                 /\ beliefs'[p[1]].smokes[p[2]] # agents[p[2]].smokes
                 /\ beliefs'[p[1]].pets[p[2]] # agents[p[2]].pet]_vars

\* C15 amended: as claimed, except that a corrupted house is another house only
\* when there is one (n_houses >= 2); with a single house the corrupted value
\* is the true house again, found without a draw.
C15_CorruptedDiffersIfPossible ==
  [][(Meeting /\ cfg.share_mode = "none") =>
       LET v == arrived_today[cur]
           h == host_by_house[agents[v].location]
       IN \A p \in {<<v, h>>, <<h, v>>} :
            /\ LearntWithinDomains(p[1], p[2])
            /\ cfg.noise = Grain =>
                 /\ IF cfg.n_houses >= 2
                    THEN beliefs'[p[1]].houses[p[2]] # agents[p[2]].house_id
                    ELSE /\ beliefs'[p[1]].houses[p[2]] = agents[p[2]].house_id
                         /\ 155 \notin drawn'
                 /\ beliefs'[p[1]].drinks[p[2]] # agents[p[2]].drink
                 /\ beliefs'[p[1]].smokes[p[2]] # agents[p[2]].smokes
                 /\ beliefs'[p[1]].pets[p[2]] # agents[p[2]].pet]_vars

\* C15 witness: in a one-house run where noise corrupts everything, without
\* sharing, an agent has recorded another's drink wrongly and its house rightly
C15_Witness ==
  /\ cfg.noise = Grain /\ cfg.n_houses = 1 /\ cfg.share_mode = "none"
  /\ \E x, y \in Idx :
       /\ x # y
       /\ y \in DOMAIN beliefs[x].drinks
       /\ beliefs[x].drinks[y] # agents[y].drink
       /\ beliefs[x].houses[y] = agents[y].house_id

\* the kinds of the rows the step about to be taken adds to the log
LoggedNow(kind) ==
  \E i \in (Len(log_rows) + 1) .. Len(log_rows') : log_rows'[i][3] = kind

\* C16: a meeting in sharing mode "meet" leaves visitor and host with the same
\* key sets in all four mappings, the union of what either knew and each
\* other, and with the same value under every key; the only entries that may
\* differ are the two agents' own pets (houses) when the same meeting went on
\* to exchange pets (houses), which rewrites each one's entry about itself
\* after the merge. Without an exchange the two stores are equal.
C16_MeetMakesStoresEqual ==
  [][(Meeting /\ cfg.share_mode = "meet") =>
       LET v == arrived_today[cur]
           h == host_by_house[agents[v].location]
       IN /\ \A m \in Mappings :
               /\ DOMAIN beliefs'[v][m] = (DOMAIN beliefs[v][m]) \cup (DOMAIN beliefs[h][m]) \cup {v, h}
               /\ DOMAIN beliefs'[h][m] = DOMAIN beliefs'[v][m]
               /\ \A k \in DOMAIN beliefs'[v][m] :
                    \/ beliefs'[v][m][k] = beliefs'[h][m][k]
                    \/ k \in {v, h} /\ m = "pets" /\ LoggedNow("changePet")
                    \/ k \in {v, h} /\ m = "houses" /\ LoggedNow("changeHouse")
          /\ (log_rows' = log_rows => beliefs'[v] = beliefs'[h])]_vars

\* C16 witness: after the meetings of a day in sharing mode "meet", a visitor
\* and the host of the house it stands in hold one and the same store, which
\* covers three agents
C16_Witness ==
  /\ cfg.share_mode = "meet" /\ pc = "return"
  /\ \E v \in Visitors :
       /\ agents[v].location \in DOMAIN host_by_house
       /\ host_by_house[agents[v].location] # v
       /\ beliefs[v] = beliefs[host_by_house[agents[v].location]]
       /\ Cardinality(DOMAIN beliefs[v].pets) >= 3

\* C17 as claimed: with six houses some pair of houses takes a different number
\* of days in the two directions.
C17_SomePairAsymmetric ==
  cfg.n_houses = SixHouses =>
    \E a, b \in 1 .. cfg.n_houses :
      a # b /\ travel_days(a, b, cfg.n_houses) # travel_days(b, a, cfg.n_houses)

\* C17 amended: travel_days is the same in both directions for every pair of
\* houses; with six houses it depends on the pair: the ring edges 1-2, 2-3, 3-4,
\* 4-5, 5-6, 6-1 take 2, 1, 2, 2, 2, 3 days, every other pair of different
\* houses 1 day; and every trip a run logs lasts as long as the way back would.
C17_PairSpecificSymmetric ==
  /\ \A a, b \in 1 .. cfg.n_houses :
       travel_days(a, b, cfg.n_houses) = travel_days(b, a, cfg.n_houses)
  /\ cfg.n_houses = SixHouses =>
       \A a, b \in 1 .. cfg.n_houses :
         travel_days(a, b, cfg.n_houses) =
           (IF a = b THEN 0
            ELSE IF b = (a % 6) + 1 THEN <<2, 1, 2, 2, 2, 3>>[a]
            ELSE IF a = (b % 6) + 1 THEN <<2, 1, 2, 2, 2, 3>>[b]
            ELSE 1)
  /\ \A i \in DOMAIN log_rows :
       log_rows[i][3] = "startTrip" =>
         log_rows[i][7] = travel_days(log_rows[i][6], log_rows[i][5], cfg.n_houses)

\* C17 witness: a six-house run has logged a trip of two days or more and the
\* trip back over the same pair of houses, of the same length
C17_Witness ==
  /\ cfg.n_houses = SixHouses
  /\ \E i, j \in DOMAIN log_rows :
       /\ log_rows[i][3] = "startTrip" /\ log_rows[j][3] = "startTrip"
       /\ log_rows[i][5] = log_rows[j][6] /\ log_rows[i][6] = log_rows[j][5]
       /\ log_rows[i][7] = log_rows[j][7] /\ log_rows[i][7] >= 2

\* C18 as claimed: no trip ever has a negative days_left, every trip that is
\* active when the day's trips have all been started has days left, and every
\* startTrip row carries a duration of at least one day.
C18_TripsTakeDays ==
  /\ \A a \in Idx : agents[a].trip.days_left >= 0
  /\ pc = "sa" => \A a \in Idx : agents[a].trip.active => agents[a].trip.days_left > 0
  /\ \A i \in DOMAIN log_rows : log_rows[i][3] = "startTrip" => log_rows[i][7] >= 1

\* the trip agent `cur` has just completed was its way home after a failed
\* arrival: the row before the trip's startTrip row is its FinishTrip with result 0
ReturnedFromBounce ==
  /\ pc = "resolve"
  /\ LET e == agents[cur].trip.start_event_id
     IN /\ e > 1
        /\ log_rows[e - 1][3] = "FinishTrip"
        /\ log_rows[e - 1][5] = cur
        /\ log_rows[e - 1][6] = 0

\* nobody but `cur` is at home, not traveling, in the house of `cur`
HomeUnattended ==
  ~\E x \in Idx \ {cur} :
      /\ ~agents[x].trip.active
      /\ agents[x].house_id = agents[cur].house_id
      /\ agents[x].location = agents[cur].house_id

Kinds == {"startTrip", "FinishTrip", "changeHouse", "changePet"}

\* C21: in both engines the event log is well-formed at every moment: the i-th
\* row carries event id i (ids 1, 2, 3, ... without gap or repeat, the counter
\* standing at the last one), days never decrease along the log and are days of
\* the run so far, every kind is one of the four, every row has exactly 10 fields.
C21_LogWellFormed ==
  /\ event_id = Len(log_rows)
  /\ \A i \in DOMAIN log_rows :
       /\ log_rows[i][1] = i
       /\ Len(log_rows[i]) = Width
       /\ log_rows[i][3] \in Kinds
       /\ log_rows[i][2] \in 1 .. day
       /\ i > 1 => log_rows[i - 1][2] <= log_rows[i][2]

\* C21 witness: a log of run_sim that holds all four kinds of rows, short ones
\* (FinishTrip, 6 fields built) and long ones, from more than one day
C21_Witness ==
  /\ ~InSession
  /\ \A k \in Kinds : \E i \in DOMAIN log_rows : log_rows[i][3] = k
  /\ log_rows[1][2] < log_rows[Len(log_rows)][2]

\* C22 as claimed: a run asked for a negative number of days stops with a
\* configuration error before anything happens: it never gets to the end of
\* the day loop and no output file, not even a header, is written.
C22_NegativeDaysRejected ==
  cfg.days < 0 =>
    /\ pc \notin {"done", "exit", "s_done", "s_exit"}
    /\ written = {}

\* C23 as claimed: whatever the two instance files hold short of a well-formed
\* table (missing, unreadable, malformed), build_agents raises nothing and
\* returns the synthetic population of the requested size.
C23_InstanceFilesNeverFail ==
  (~InSession /\ (cfg.zebra_init # "good" \/ cfg.zebra_strat # "good")) =>
    /\ pc # "raised"
    /\ n_agents = cfg.n_agents
    /\ \A i \in Idx : agents[i].strategy = cfg.strategy

\* the override of a session names nobody of the population
UnknownTarget == InSession /\ cfg.mt_who # {} /\ cfg.mt_who \cap Idx = {}

\* C24: when the override names an agent that is not in the population, mt_for
\* finds no override for any agent and every agent plays the five numbers it
\* plays in the same session without override (33/33/34, 10, 10), which are
\* all that the steps of the session read of the override.
C24_UnknownOverrideIgnored ==
  UnknownTarget =>
    \A a \in Idx :
      /\ mt_for(a, cfg) = {}
      /\ strategy_of(a, cfg)
           = strategy_of(a, [cfg EXCEPT !.mt_who = {}, !.mt_strategy = {}])
      /\ strategy_of(a, cfg)
           = [p_left |-> 33, p_right |-> 33, p_home |-> 34,
              p_house_exch |-> 10, p_pet_exch |-> 10]

\* C24 witness: in a session whose override (never exchange) names an unknown
\* agent, a house exchange and a pet exchange were logged
C24_Witness ==
  /\ UnknownTarget
  /\ \E i, j \in DOMAIN log_rows :
       /\ log_rows[i][3] = "changeHouse"
       /\ log_rows[j][3] = "changePet"

NoShareNoNoise == ~InSession /\ cfg.share_mode = "none" /\ cfg.noise = 0

\* C26 as claimed: without sharing and noise, the number of facts an agent
\* knows grows only when the agent itself completed a trip with result 1 that day.
C26_LearnsOnlyByOwnTrip ==
  [][NoShareNoNoise =>
       \A a \in Idx :
         Known(beliefs'[a]) > Known(beliefs[a]) => FinishedToday(a, 1)]_vars

\* C26 amended: without sharing and noise, the number of facts an agent knows
\* grows only in a meeting of that day in which it takes part, as the visitor
\* (it completed a trip with result 1 that day, to a house where another agent
\* is the host) or as that host, who need not have traveled at all; it grows by
\* the four facts about the other party, which the agent did not know before.
C26_LearnsOnlyInOwnMeeting ==
  [][NoShareNoNoise =>
       \A a \in Idx :
         Known(beliefs'[a]) > Known(beliefs[a]) =>
           /\ pc = "interact"
           /\ LET v == arrived_today[cur]
                  here == agents[v].location
              IN /\ FinishedToday(v, 1)
                 /\ here \in DOMAIN host_by_house
                 /\ host_by_house[here] # v
                 /\ a \in {v, host_by_house[here]}
                 /\ LET other == IF a = v THEN host_by_house[here] ELSE v
                    IN /\ other \notin DOMAIN beliefs[a].houses
                       /\ other \in DOMAIN beliefs'[a].houses
                       /\ Known(beliefs'[a]) = Known(beliefs[a]) + 4]_vars

\* C26 witness: an agent that never completed a trip knows the facts of another agent
C26_Witness ==
  /\ NoShareNoNoise
  /\ \E a \in Idx :
       /\ Known(beliefs[a]) > 4
       /\ \A i \in DOMAIN log_rows :
            log_rows[i][3] = "FinishTrip" => log_rows[i][5] # a

\* a run of run_sim with sharing on meeting, no noise, more agents than houses
\* (hence the synthetic population, whose strategies never ask for an exchange)
FullSharing ==
  /\ ~InSession
  /\ cfg.share_mode = "meet" /\ cfg.noise = 0
  /\ cfg.n_agents > cfg.n_houses
  /\ cfg.strategy = DefaultStrategy

\* agent a still has a part in today's phases: its FinishTrip row was just
\* logged, it is among arrived_today and phase 4 has not come to it, or it is
\* entered as a host and today's meetings are not over
Pending(a) ==
  \/ pc = "resolve" /\ cur = a
  \/ \E k \in DOMAIN arrived_today :
       /\ arrived_today[k] = a
       /\ \/ pc \in {"finish", "resolve", "hosts", "interact"}
          \/ pc = "return" /\ k >= cur
  \/ /\ pc = "interact"
     /\ \E h \in DOMAIN host_by_house : host_by_house[h] = a

\* agent a rests in a house that is not its home with nothing pending: it is no
\* host (line 350), no visitor, and phase 5 passes it over (line 417)
Stranded(a) ==
  /\ ~agents[a].trip.active
  /\ agents[a].location # agents[a].house_id
  /\ ~Pending(a)

\* a stranded agent stays stranded, and what it is and knows never changes again
StrandedForGood ==
  [][\A a \in Idx :
       Stranded(a) =>
         /\ agents'[a] = agents[a]
         /\ beliefs'[a] = beliefs[a]
         /\ \A k \in DOMAIN arrived_today' : arrived_today'[k] # a]_vars

\* C27 as claimed: with sharing on meeting, no noise and more agents than
\* houses, what an agent knows never shrinks and every agent comes to know all
\* four facts of every agent; so no agent is ever left, short of knowing
\* everything, in a position from which it cannot learn again.
C27_MeetConverges ==
  /\ [][FullSharing =>
          \A a \in Idx : Known(beliefs'[a]) >= Known(beliefs[a])]_vars
  /\ [](FullSharing =>
          \A a \in Idx : Stranded(a) => Known(beliefs[a]) = 4 * n_agents)

\* houses x and y are next to each other on a ring of H houses
NextDoor(x, y, H) == (y - x) % H \in {1, H - 1}

\* a run of run_sim without sharing, one agent per house on a ring of four
\* houses or more, in which no house exchange has taken place
OnePerHouse ==
  /\ ~InSession /\ pc # "raised"
  /\ cfg.share_mode = "none"
  /\ cfg.n_agents = cfg.n_houses /\ cfg.n_houses >= 4
  /\ \A i \in DOMAIN log_rows : log_rows[i][3] # "changeHouse"

\* C28: without sharing, with one agent per house (H >= 4) and no house
\* exchange, every key of every mapping of an agent's belief store is the agent
\* itself or the resident of a house next door, so sa_any is at most 3/H and
\* below 1.
C28_KnowsOnlyNeighbours ==
  OnePerHouse =>
    \A a \in Idx :
      /\ \A j \in (DOMAIN beliefs[a].houses) \cup (DOMAIN beliefs[a].drinks)
                   \cup (DOMAIN beliefs[a].smokes) \cup (DOMAIN beliefs[a].pets) :
           \/ j = a
           \/ NextDoor(agents[a].house_id, agents[j].house_id, cfg.n_houses)
      /\ LET sa == sa_any(beliefs[a], n_agents)
         IN /\ sa[1] * cfg.n_houses <= 3 * sa[2]
            /\ sa[1] < sa[2]

\* C28 witness: on the ring of RingSize houses an agent knows itself and both
\* of its neighbours
C28_Witness ==
  /\ OnePerHouse /\ cfg.n_houses = RingSize
  /\ \E a \in Idx : Cardinality(DOMAIN beliefs[a].houses) = 3

\* C29: on every ring of H >= 1 houses both neighbours of every house are
\* houses of the ring, the right of H is 1 and the left of 1 is H, each undoes
\* the other, and _wrap_house(h - 1, H) and _wrap_house(h + 1, H) are the same
\* two houses; every trip either engine starts runs between houses of the ring.
C29_NeighboursWrap ==
  LET ring == IF InSession THEN cfg.houses ELSE cfg.n_houses
  IN /\ \A H \in (1 .. SixHouses) \cup {ring} :
          /\ neighbor_right(H, H) = 1
          /\ neighbor_left(1, H) = H
          /\ \A h \in 1 .. H :
               /\ neighbor_left(h, H) \in 1 .. H
               /\ neighbor_right(h, H) \in 1 .. H
               /\ neighbor_left(neighbor_right(h, H), H) = h
               /\ neighbor_right(neighbor_left(h, H), H) = h
               /\ _wrap_house(h - 1, H) = neighbor_left(h, H)
               /\ _wrap_house(h + 1, H) = neighbor_right(h, H)
     /\ \A i \in DOMAIN log_rows :
          log_rows[i][3] = "startTrip" =>
            /\ log_rows[i][5] \in 1 .. ring
            /\ log_rows[i][6] \in 1 .. ring

\* C29 witness: on a ring of three houses a trip went left from house 1 to
\* house 3 and a trip went right from house 3 to house 1
C29_Witness ==
  /\ ~InSession /\ pc # "raised" /\ cfg.n_houses = 3
  /\ \E i, j \in DOMAIN log_rows :
       /\ log_rows[i][3] = "startTrip" /\ log_rows[i][5] = 1 /\ log_rows[i][6] = 3
       /\ log_rows[j][3] = "startTrip" /\ log_rows[j][5] = 3 /\ log_rows[j][6] = 1
       /\ log_rows[i][2] = 1 /\ log_rows[j][2] = 1

\* the state run_sim starts from: day 1, nothing logged, nothing written, no
\* agent handled yet
Initial ==
  /\ ~InSession /\ pc # "raised"
  /\ day = 1 /\ cur = 0 /\ pc \in {"finish", "done"}
  /\ event_id = 0 /\ sa_rows = <<>> /\ written = {}

\* C30: at the start of a run no agent has an active trip, every agent is in
\* its home house, and each mapping of its belief store has exactly one entry,
\* under its own index: its own house, drink, brand and pet.
C30_InitialState ==
  Initial =>
    \A a \in Idx :
      /\ ~agents[a].trip.active
      /\ agents[a].location = agents[a].house_id
      /\ agents[a].house_id \in 1 .. cfg.n_houses
      /\ DOMAIN beliefs[a].houses = {a} /\ beliefs[a].houses[a] = agents[a].house_id
      /\ DOMAIN beliefs[a].drinks = {a} /\ beliefs[a].drinks[a] = agents[a].drink
      /\ DOMAIN beliefs[a].smokes = {a} /\ beliefs[a].smokes[a] = agents[a].smokes
      /\ DOMAIN beliefs[a].pets = {a} /\ beliefs[a].pets[a] = agents[a].pet

\* C30 witness: the start of a run in which two of three agents share a house
C30_Witness ==
  /\ Initial /\ pc = "finish"
  /\ n_agents = 3
  /\ agents[0].house_id = agents[2].house_id

\* the direction the draw x / Grain selects once the three movement weights of
\* strategy s are normalized to sum to 1
NormalizedDirection(s, x) ==
  LET total == s.p_left + s.p_right + s.p_home
  IN IF x * total < s.p_left * Grain THEN "left"
     ELSE IF x * total < (s.p_left + s.p_right) * Grain THEN "right"
     ELSE "home"

\* C31 as claimed: for every agent of a run of run_sim whose movement weights
\* are non-negative with a positive sum, and every draw, sample_direction
\* returns the direction of the normalized weights; and a trip that phase 5
\* starts goes where some draw sends it under the normalized weights.
C31_DirectionsNormalized ==
  /\ [](~InSession =>
          \A a \in Idx : \A x \in Draws :
            LET s == agents[a].strategy
            IN (s.p_left >= 0 /\ s.p_right >= 0 /\ s.p_home >= 0
                  /\ s.p_left + s.p_right + s.p_home > 0) =>
                 sample_direction(s, x) = NormalizedDirection(s, x))
  /\ [][(pc = "sample" /\ agents'[cur].trip.active /\ ~agents[cur].trip.active) =>
          \E x \in Draws :
            LET dir == NormalizedDirection(agents[cur].strategy, x)
            IN /\ dir # "home"
               /\ agents'[cur].trip.to_house =
                    (IF dir = "left" THEN neighbor_left(agents[cur].location, cfg.n_houses)
                     ELSE neighbor_right(agents[cur].location, cfg.n_houses))]_vars

\* C32 as claimed: in run_session the known-fact counter of every agent, as
\* the metrics table records it day by day, never goes down from one day to
\* the next, whatever the sharing mode and the noise.
C32_SessionKnownNeverShrinks ==
  InSession =>
    \A k \in DOMAIN sa_rows : \A a \in Idx :
      k > 1 => sa_rows[k][a + 2] >= sa_rows[k - 1][a + 2]

\* C39 as claimed: every changeHouse and changePet row of run_session names two
\* different agents, and the agent that exchanges is not traveling when the row
\* is logged.
C39_SessionExchangeWithAnother ==
  /\ [](InSession =>
          \A i \in DOMAIN log_rows :
            log_rows[i][3] \in {"changeHouse", "changePet"} =>
              log_rows[i][4] # log_rows[i][5])
  /\ [][(InSession /\ Len(log_rows') > Len(log_rows)) =>
          \A i \in (DOMAIN log_rows') \ (DOMAIN log_rows) :
            log_rows'[i][3] \in {"changeHouse", "changePet"} =>
              /\ log_rows'[i][4] = cur
              /\ ~agents[cur].trip.active]_vars

\* C33 as claimed: when a day of run_sim ends, every agent is traveling or is
\* in its own home house.
C33_TravelingOrAtHome ==
  (~InSession /\ pc = "sa") =>
    \A a \in Idx : agents[a].trip.active \/ agents[a].location = agents[a].house_id

\* agent a, as the host of a house exchange, gave away the house it is in and
\* has started no trip since
GaveHouseAway(a) ==
  \E i \in DOMAIN log_rows :
    /\ log_rows[i][3] = "changeHouse"
    /\ log_rows[i][5] = a
    /\ log_rows[i][7] = agents[a].location
    /\ \A j \in DOMAIN log_rows :
         (j > i /\ log_rows[j][3] = "startTrip") => log_rows[j][4] # a

\* C33 amended: when a day ends, every agent is traveling, or in its own home
\* house, or a host that gave its house away in a house exchange and has not
\* traveled since; such an agent rests in the house it gave away and, from the
\* end of that day's meetings on, nothing about it (home, pet, location, trip,
\* belief store) ever changes again.
C33_OnlySwappedHostsRestAway ==
  /\ []((~InSession /\ pc = "sa") =>
          \A a \in Idx :
            \/ agents[a].trip.active
            \/ agents[a].location = agents[a].house_id
            \/ GaveHouseAway(a) /\ Stranded(a))
  /\ StrandedForGood

\* C33 witness: a day ends with an agent at rest in a house that is not its home
C33_Witness ==
  /\ ~InSession /\ pc = "sa"
  /\ \E a \in Idx :
       /\ ~agents[a].trip.active
       /\ agents[a].location # agents[a].house_id
       /\ GaveHouseAway(a)

\* agent v stands in a house that was not its home when it arrived there: it is
\* away from home and did not, as a host, exchange its house away today
ForeignVisitor(v) ==
  /\ agents[v].location # agents[v].house_id
  /\ ~\E i \in DOMAIN log_rows :
        /\ log_rows[i][3] = "changeHouse"
        /\ log_rows[i][2] = day
        /\ log_rows[i][5] = v

\* b's four mappings all have an entry for agent x
Holds(b, x) ==
  /\ x \in DOMAIN b.houses /\ x \in DOMAIN b.drinks
  /\ x \in DOMAIN b.smokes /\ x \in DOMAIN b.pets

\* C34: a traveler whose trip ends with result 1 is entered once among the
\* day's arrivals; each arrival waiting for phase 3 in a house that is not its
\* own has completed a trip with result 1 today and finds a host entered for
\* that house that is another agent (the branches `host_idx is None` and
\* `host_idx == visitor_idx` are not taken for it); and its turn in phase 3
\* leaves the host in all four mappings of the visitor and the visitor in all
\* four mappings of the host.
C34_ForeignArrivalMeetsHost ==
  /\ [](~InSession =>
          /\ \A i, j \in DOMAIN arrived_today :
               i # j => arrived_today[i] # arrived_today[j]
          /\ pc = "interact" =>
               \A k \in cur .. Len(arrived_today) :
                 LET v == arrived_today[k]
                     house == agents[v].location
                 IN ForeignVisitor(v) =>
                      /\ FinishedToday(v, 1)
                      /\ house \in DOMAIN host_by_house
                      /\ host_by_house[house] # v)
  /\ [][(pc = "resolve" /\ r = 1) => arrived_today' = Append(arrived_today, cur)]_vars
  /\ [][(pc = "interact" /\ ForeignVisitor(arrived_today[cur])) =>
          LET v == arrived_today[cur]
              h == host_by_house[agents[v].location]
          IN /\ Holds(beliefs'[v], h)
             /\ Holds(beliefs'[h], v)]_vars

\* C34 witness: phase 3 is over on a day on which two travelers arrived in the
\* same house, not their own, and both met the host entered for it
C34_Witness ==
  /\ ~InSession /\ pc = "return"
  /\ \E i, j \in DOMAIN arrived_today :
       LET v == arrived_today[i]
           w == arrived_today[j]
       IN /\ i < j
          /\ agents[v].location = agents[w].location
          /\ agents[v].location # agents[v].house_id
          /\ agents[w].location # agents[w].house_id
          /\ agents[v].location \in DOMAIN host_by_house
          /\ Holds(beliefs[v], host_by_house[agents[v].location])
          /\ Holds(beliefs[w], host_by_house[agents[v].location])
          /\ Holds(beliefs[host_by_house[agents[v].location]], v)
          /\ Holds(beliefs[host_by_house[agents[v].location]], w)

\* C37: an agent whose trip is active, or becomes active in this step, keeps
\* its home house, its pet and its belief store; phase 3 never takes a
\* traveling agent as the visitor or as the host; and every active trip starts
\* or ends at the home house of its agent.
C37_TravelersAreFrozen ==
  /\ [][~InSession =>
          \A a \in Idx :
            (agents[a].trip.active \/ agents'[a].trip.active) =>
              /\ agents'[a].house_id = agents[a].house_id
              /\ agents'[a].pet = agents[a].pet
              /\ beliefs'[a] = beliefs[a]]_vars
  /\ [](~InSession =>
          /\ \A a \in Idx :
               agents[a].trip.active =>
                 \/ agents[a].trip.from_house = agents[a].house_id
                 \/ agents[a].trip.to_house = agents[a].house_id
          /\ pc = "interact" =>
               LET v == arrived_today[cur]
                   house == agents[v].location
               IN /\ ~agents[v].trip.active
                  /\ house \in DOMAIN host_by_house =>
                       ~agents[host_by_house[house]].trip.active)

\* C37 witness: a meeting with an exchange of pets has just taken place while
\* another agent was traveling
C37_Witness ==
  /\ ~InSession /\ pc \in {"interact", "return"}
  /\ log_rows # <<>>
  /\ log_rows[Len(log_rows)][3] = "changePet"
  /\ log_rows[Len(log_rows)][2] = day
  /\ \E a \in Idx :
       /\ agents[a].trip.active
       /\ log_rows[Len(log_rows)][4] # a
       /\ log_rows[Len(log_rows)][5] # a

\* C35 as claimed: the FinishTrip row of a trip is logged on the day of its
\* startTrip row plus the duration that row carries, every trip due before
\* today has its FinishTrip row, and a traveling agent is located at the
\* origin house of its trip.
C35_FinishOnDueDay ==
  ~InSession =>
    /\ \A i \in DOMAIN log_rows :
         log_rows[i][3] = "FinishTrip" =>
           LET s == log_rows[i][4]
           IN /\ s \in DOMAIN log_rows
              /\ log_rows[s][3] = "startTrip"
              /\ log_rows[i][2] = log_rows[s][2] + log_rows[s][7]
    /\ \A s \in DOMAIN log_rows :
         (log_rows[s][3] = "startTrip" /\ log_rows[s][2] + log_rows[s][7] < day) =>
           \E i \in DOMAIN log_rows :
             log_rows[i][3] = "FinishTrip" /\ log_rows[i][4] = s
    /\ \A a \in Idx :
         agents[a].trip.active => agents[a].location = agents[a].trip.from_house

\* the rows of kind `kind` the log holds for agent a (column `col` names it)
RowsOf(kind, col, a) ==
  {i \in DOMAIN log_rows : log_rows[i][3] = kind /\ log_rows[i][col] = a}

\* C36: every FinishTrip row carries the id of an earlier startTrip row of the
\* same agent, and that row is the agent's last startTrip before it; no
\* startTrip id is carried by two FinishTrip rows; between two startTrip rows
\* of one agent lies the FinishTrip row of the first; and a trip that is
\* active carries the id of its agent's last startTrip row, which has no
\* FinishTrip row yet.
C36_FinishMatchesLastStart ==
  ~InSession =>
    /\ \A i \in DOMAIN log_rows :
         log_rows[i][3] = "FinishTrip" =>
           LET s == log_rows[i][4]
               a == log_rows[i][5]
           IN /\ s \in RowsOf("startTrip", 4, a)
              /\ s < i
              /\ log_rows[s][1] = s
              /\ \A t \in RowsOf("startTrip", 4, a) : t < i => t <= s
    /\ \A i, j \in DOMAIN log_rows :
         (/\ log_rows[i][3] = "FinishTrip" /\ log_rows[j][3] = "FinishTrip"
          /\ log_rows[i][4] = log_rows[j][4]) => i = j
    /\ \A a \in Idx :
         \A s, t \in RowsOf("startTrip", 4, a) :
           s < t => \E i \in RowsOf("FinishTrip", 5, a) :
                      s < i /\ i < t /\ log_rows[i][4] = s
    /\ \A a \in Idx :
         agents[a].trip.active =>
           LET s == agents[a].trip.start_event_id
           IN /\ s \in RowsOf("startTrip", 4, a)
              /\ \A t \in RowsOf("startTrip", 4, a) : t <= s
              /\ \A i \in RowsOf("FinishTrip", 5, a) : log_rows[i][4] # s

\* C36 witness: one agent has started three trips (out, back and out again)
\* and finished the first two
C36_Witness ==
  /\ ~InSession
  /\ \E a \in Idx :
       /\ Cardinality(RowsOf("startTrip", 4, a)) >= 3
       /\ Cardinality(RowsOf("FinishTrip", 5, a)) >= 2
       /\ agents[a].trip.active

\* no exchange of pets or houses has been logged so far
NoExchangeYet ==
  \A i \in DOMAIN log_rows : log_rows[i][3] \notin {"changePet", "changeHouse"}

\* C38: in a run without noise in which no changePet and no changeHouse row
\* has been logged so far, every value every belief store holds is the true
\* attribute of the agent it is about, and sa_m1_true of every agent equals
\* its sa_any, in both sharing modes.
C38_NoNoiseNoExchangeAllTrue ==
  (~InSession /\ cfg.noise = 0 /\ NoExchangeYet) =>
    \A a \in Idx :
      /\ \A f \in RecordedFacts(beliefs[a]) :
           beliefs[a][f[1]][f[2]] = Truth(agents, f)
      /\ sa_m1_true(beliefs[a], agents, cfg.n_agents) = sa_any(beliefs[a], cfg.n_agents)

\* C38 witness: the day's share is about to be computed in a run in sharing
\* mode "meet" without noise and without an exchange so far, and some agent
\* holds all four facts about at least two other agents
C38_Witness ==
  /\ ~InSession /\ pc = "sa"
  /\ cfg.noise = 0 /\ NoExchangeYet
  /\ cfg.share_mode = "meet"
  /\ \E a \in Idx :
       Cardinality({x \in Idx \ {a} : Holds(beliefs[a], x)}) >= 2

====
